---- MODULE Spec2Model ----
(***************************************************************************)
(* A model of exoplanet/distributions/transforms.py: the PyMC3 transforms  *)
(* AbsoluteValue, UnitDisk (chained with Interval(-1, 1)), QuadLimbDark,   *)
(* RadiusImpact and ImpactParameter.                                       *)
(*                                                                         *)
(* Numbers.  A floating point value is modelled by an exact extended       *)
(* rational <<n, d>> in lowest terms with d >= 0: d > 0 is the finite      *)
(* value n/d, <<1, 0>> is +inf, <<-1, 0>> is -inf and <<0, 0>> is nan.     *)
(* Arithmetic follows IEEE for the non-finite values (x/0 = +-inf,         *)
(* 0/0 = inf - inf = 0 * inf = nan, comparisons with nan are false).       *)
(*                                                                         *)
(* Unconstrained values.  log, sigmoid and softplus are transcendental, so *)
(* a value y of the unconstrained space (and a log-Jacobian) is held as    *)
(* e = exp(y), an extended rational in [0, +inf] or nan:                   *)
(*    log(q) - log(1 - q)    is held as q / (1 - q)   (nan outside [0, 1]) *)
(*    sigmoid(y)             is 1 / (1 + 1/e)                              *)
(* so that logit and sigmoid are exact inverses of each other on (0, 1),   *)
(* and neither is the identity.                                            *)
(*                                                                         *)
(* Arrays.  A tensor of shape (k, N) is a sequence of k rows, each a       *)
(* sequence of N numbers: x[0] of the source is x[1] here.                 *)
(***************************************************************************)
EXTENDS Integers, Sequences, FiniteSets, TLC

VARIABLES pc, ri, ip, op, layout, arg, out, err, prev

vars == <<pc, ri, ip, op, layout, arg, out, err, prev>>

(***************************************************************************)
(* Bounds of the model.                                                    *)
(***************************************************************************)
\* radii are drawn from {0, 1/4, ..., MaxRadiusK/4}
MaxRadiusK == 3
\* points per axis of an input grid
GridN == 4
\* largest batch length N of a (2, N) or (N, 2) input
MaxBatch == 3

(***************************************************************************)
(* Extended rational arithmetic (the float operators the source uses).     *)
(***************************************************************************)
RECURSIVE GCD(_, _)
GCD(a, b) == IF b = 0 THEN a ELSE GCD(b, a % b)

AbsInt(n) == IF n < 0 THEN -n ELSE n

Sgn(n) == IF n > 0 THEN 1 ELSE IF n < 0 THEN -1 ELSE 0

\* <<n, d>> with d >= 0 brought to lowest terms
Norm(n, d) ==
    IF d = 0 THEN <<Sgn(n), 0>>
    ELSE IF n = 0 THEN <<0, 1>>
    ELSE LET g == GCD(AbsInt(n), d) IN <<n \div g, d \div g>>

Q(n, d) == IF d < 0 THEN Norm(-n, -d) ELSE Norm(n, d)

NaN == <<0, 0>>
PosInf == <<1, 0>>
Zero == <<0, 1>>
One == <<1, 1>>
Two == <<2, 1>>
Half == <<1, 2>>

IsNaN(a) == a[1] = 0 /\ a[2] = 0
IsFinite(a) == a[2] > 0

Add(a, b) ==
    IF a[2] = 0 /\ b[2] = 0
    THEN (IF a[1] = b[1] THEN a ELSE NaN)
    ELSE Norm(a[1] * b[2] + b[1] * a[2], a[2] * b[2])

Neg(a) == <<-a[1], a[2]>>

Sub(a, b) == Add(a, Neg(b))

Mul(a, b) == Norm(a[1] * b[1], a[2] * b[2])

\* 1/a, with 1/0 = +inf and 1/(+-inf) = 0
Recip(a) ==
    IF a[1] > 0 THEN <<a[2], a[1]>>
    ELSE IF a[1] < 0 THEN <<-a[2], -a[1]>>
    ELSE Norm(a[2], 0)

Div(a, b) == Mul(a, Recip(b))

Lt(a, b) ==
    /\ ~IsNaN(a)
    /\ ~IsNaN(b)
    /\ IF a[2] = 0 /\ b[2] = 0 THEN a[1] < b[1]
       ELSE a[1] * b[2] < b[1] * a[2]

Gt(a, b) == Lt(b, a)

Leq(a, b) == ~IsNaN(a) /\ ~IsNaN(b) /\ ~Lt(b, a)

Geq(a, b) == Leq(b, a)

Abs(a) == <<AbsInt(a[1]), a[2]>>

Square(a) == Mul(a, a)

\* floor of the square root of the natural number v, by bisection on [lo, hi)
RECURSIVE ISqrtIn(_, _, _)
ISqrtIn(v, lo, hi) ==
    IF hi - lo <= 1 THEN lo
    ELSE LET mid == (lo + hi) \div 2
         IN IF mid * mid <= v THEN ISqrtIn(v, mid, hi) ELSE ISqrtIn(v, lo, mid)

ISqrt(v) == ISqrtIn(v, 0, IF v < 46340 THEN v + 1 ELSE 46340)

IsSquare(v) == ISqrt(v) * ISqrt(v) = v

\* sqrt: exact on the squares of rationals, rounded down to a multiple of 1/64
\* elsewhere (the float sqrt is rounded too); nan below zero
Sqrt(a) ==
    IF IsNaN(a) \/ a[1] < 0 THEN NaN
    ELSE IF a[2] = 0 THEN PosInf
    ELSE IF IsSquare(a[1]) /\ IsSquare(a[2]) THEN <<ISqrt(a[1]), ISqrt(a[2])>>
    ELSE Norm(ISqrt((a[1] * 4096) \div a[2]), 64)

\* log(u) - log(v), held as its exponential u / v; the log of a negative
\* number is nan, and so are -inf + inf (0/0) and inf - inf
LogDiff(u, v) ==
    IF Leq(Zero, u) /\ Leq(Zero, v) THEN Div(u, v) ELSE NaN

\* log(q) - log(1 - q)
Logit(q) == LogDiff(q, Sub(One, q))

\* sigmoid(y) = 1 / (1 + exp(-y)) of a value held as e = exp(y)
Sigmoid(e) == Recip(Add(One, Recip(e)))

(***************************************************************************)
(* AbsoluteValueTransform (scalars).                                       *)
(***************************************************************************)
\* mutant: the absolute value is dropped
AbsoluteValue_backward_noabs(y) ==
    Sub(Mul(Two, Sigmoid(y)), One)

AbsoluteValue_backward(y) ==
    LET u == Sub(Mul(Two, Sigmoid(y)), One)
    IN Abs(u)

AbsoluteValue_forward(x) ==
    LET q == Mul(Half, Add(x, One))
    IN LogDiff(q, Sub(One, q))

(***************************************************************************)
(* UnitDiskTransform, and unit_disk = Chain([UnitDiskTransform(),          *)
(* Interval(-1, 1)]) (arrays of shape (2,)).                               *)
(***************************************************************************)
\* mutant: backward divides, as forward does
UnitDisk_backward_div(y) ==
    <<y[1], Div(y[2], Sqrt(Sub(One, Square(y[1]))))>>

UnitDisk_backward(y) ==
    <<y[1], Mul(y[2], Sqrt(Sub(One, Square(y[1]))))>>

UnitDisk_forward(x) ==
    <<x[1], Div(x[2], Sqrt(Sub(One, Square(x[1]))))>>

\* pymc3's Interval(a, b), elementwise: backward is (b - a) * sigmoid(y) + a,
\* forward is log(x - a) - log(b - x)
Interval_backward(a, b, y) ==
    [i \in 1..Len(y) |-> Add(Mul(Sub(b, a), Sigmoid(y[i])), a)]

Interval_forward(a, b, x) ==
    [i \in 1..Len(x) |-> LogDiff(Sub(x[i], a), Sub(b, x[i]))]

unit_disk_transform_list == <<"unitdisk", "interval">>

StageBackward(name, v) ==
    IF name = "unitdisk" THEN UnitDisk_backward(v)
    ELSE Interval_backward(Neg(One), One, v)

StageForward(name, v) ==
    IF name = "unitdisk" THEN UnitDisk_forward(v)
    ELSE Interval_forward(Neg(One), One, v)

\* pymc3's Chain.backward: for transf in reversed(transform_list)
RECURSIVE ChainBackwardFrom(_, _, _)
ChainBackwardFrom(list, i, v) ==
    IF i = 0 THEN v ELSE ChainBackwardFrom(list, i - 1, StageBackward(list[i], v))

Chain_backward(list, y) == ChainBackwardFrom(list, Len(list), y)

\* pymc3's Chain.forward: for transf in transform_list
RECURSIVE ChainForwardFrom(_, _, _)
ChainForwardFrom(list, i, v) ==
    IF i > Len(list) THEN v ELSE ChainForwardFrom(list, i + 1, StageForward(list[i], v))

Chain_forward(list, x) == ChainForwardFrom(list, 1, x)

(***************************************************************************)
(* QuadLimbDarkTransform (arrays of shape (2,)).                           *)
(***************************************************************************)
\* mutant: 1 - q2 in place of 1 - 2 q2
QuadLimbDark_backward_q2(y) ==
    LET q == <<Sigmoid(y[1]), Sigmoid(y[2])>>
        sqrtq1 == Sqrt(q[1])
        twoq2 == Mul(Two, q[2])
    IN <<Mul(sqrtq1, twoq2), Mul(sqrtq1, Sub(One, q[2]))>>

QuadLimbDark_backward(y) ==
    LET q == <<Sigmoid(y[1]), Sigmoid(y[2])>>
        sqrtq1 == Sqrt(q[1])
        twoq2 == Mul(Two, q[2])
    IN <<Mul(sqrtq1, twoq2), Mul(sqrtq1, Sub(One, twoq2))>>

QuadLimbDark_forward(x) ==
    LET usum == Add(x[1], x[2])
        q == <<Square(usum), Div(Mul(Half, x[1]), usum)>>
    IN <<LogDiff(q[1], Sub(One, q[1])), LogDiff(q[2], Sub(One, q[2]))>>

(***************************************************************************)
(* RadiusImpactTransform (arrays of shape (2, N): the code indexes the     *)
(* first axis, x[0] and x[1]).                                             *)
(***************************************************************************)
RadiusImpact_init(min_radius, max_radius) ==
    LET dr == Sub(max_radius, min_radius)
        denom == Add(Add(Two, min_radius), max_radius)
    IN [min_radius |-> min_radius, max_radius |-> max_radius,
        dr |-> dr, Ar |-> Div(dr, denom)]

\* branch A of backward: (p1, b1) of one element
RadiusImpact_backward_A(t, r1, r2) ==
    LET pl == t.min_radius
        b1 == Mul(Add(One, pl), Add(One, Div(Sub(r1, One), Sub(One, t.Ar))))
        p1 == Add(pl, Mul(r2, t.dr))
    IN <<p1, b1>>

\* mutant: b2 without its offset 1 + pl
RadiusImpact_backward_B_nooffset(t, r1, r2) ==
    LET pu == t.max_radius
        q1 == Div(r1, t.Ar)
        q2 == r2
        b2 == Mul(Mul(Sqrt(q1), q2), t.dr)
        p2 == Sub(pu, Mul(Mul(t.dr, Sqrt(q1)), Sub(One, q2)))
    IN <<p2, b2>>

\* branch B of backward: (p2, b2) of one element
RadiusImpact_backward_B(t, r1, r2) ==
    LET pl == t.min_radius
        pu == t.max_radius
        q1 == Div(r1, t.Ar)
        q2 == r2
        b2 == Add(Add(One, pl), Mul(Mul(Sqrt(q1), q2), t.dr))
        p2 == Sub(pu, Mul(Mul(t.dr, Sqrt(q1)), Sub(One, q2)))
    IN <<p2, b2>>

\* mutant: the branch condition reversed (r1 < Ar)
RadiusImpact_backward_flipped(t, y) ==
    LET r1 == [i \in 1..Len(y[1]) |-> Sigmoid(y[1][i])]
        r2 == [i \in 1..Len(y[2]) |-> Sigmoid(y[2][i])]
        N == Len(r1)
    IN <<[i \in 1..N |-> IF Lt(r1[i], t.Ar)
                         THEN RadiusImpact_backward_A(t, r1[i], r2[i])[1]
                         ELSE RadiusImpact_backward_B(t, r1[i], r2[i])[1]],
         [i \in 1..N |-> IF Lt(r1[i], t.Ar)
                         THEN RadiusImpact_backward_A(t, r1[i], r2[i])[2]
                         ELSE RadiusImpact_backward_B(t, r1[i], r2[i])[2]]>>

\* tt.switch(r1 > self.Ar, stack((p1, b1)), stack((p2, b2))), elementwise
RadiusImpact_backward(t, y) ==
    LET r1 == [i \in 1..Len(y[1]) |-> Sigmoid(y[1][i])]
        r2 == [i \in 1..Len(y[2]) |-> Sigmoid(y[2][i])]
        N == Len(r1)
        A == [i \in 1..N |-> RadiusImpact_backward_A(t, r1[i], r2[i])]
        B == [i \in 1..N |-> RadiusImpact_backward_B(t, r1[i], r2[i])]
    IN <<[i \in 1..N |-> IF Gt(r1[i], t.Ar) THEN A[i][1] ELSE B[i][1]],
         [i \in 1..N |-> IF Gt(r1[i], t.Ar) THEN A[i][2] ELSE B[i][2]]>>

\* branch A of forward: (r11, r21) of one element
RadiusImpact_forward_A(pl, Ar, dr, p, b) ==
    LET r11 == Add(Mul(Sub(Div(b, Add(One, pl)), One), Sub(One, Ar)), One)
        r21 == Div(Sub(p, pl), dr)
    IN <<r11, r21>>

\* branch B of forward: (r12, r22) of one element
RadiusImpact_forward_B(pl, Ar, dr, p, b) ==
    LET arg_ == Add(Sub(Sub(p, b), dr), One)
        q1 == Square(Div(arg_, dr))
        q2 == Div(Add(Sub(pl, b), One), arg_)
        r12 == Mul(q1, Ar)
        r22 == q2
    IN <<r12, r22>>

\* tt.switch(b <= 1, stack((r11, r21)), stack((r12, r22))), then log(y) - log(1 - y)
RadiusImpact_forward(t, x) ==
    LET p == x[1]
        b == x[2]
        N == Len(p)
        A == [i \in 1..N |-> RadiusImpact_forward_A(t.min_radius, t.Ar, t.dr, p[i], b[i])]
        B == [i \in 1..N |-> RadiusImpact_forward_B(t.min_radius, t.Ar, t.dr, p[i], b[i])]
        y == <<[i \in 1..N |-> IF Leq(b[i], One) THEN A[i][1] ELSE B[i][1]],
               [i \in 1..N |-> IF Leq(b[i], One) THEN A[i][2] ELSE B[i][2]]>>
    IN <<[i \in 1..N |-> LogDiff(y[1][i], Sub(One, y[1][i]))],
         [i \in 1..N |-> LogDiff(y[2][i], Sub(One, y[2][i]))]>>

\* draw_values([min_radius - 0.0, Ar - 0.0, dr - 0.0], point): the construction
\* values, resolved to numbers
RadiusImpact_draw_values(t) == <<t.min_radius, t.Ar, t.dr>>

\* the indices a boolean mask selects, in increasing order (b[m], r[0, m])
MaskIndices(m) == SelectSeq([i \in 1..Len(m) |-> i], LAMBDA i : m[i])

\* the position of index i in the sequence of indices idx
PositionIn(idx, i) == CHOOSE k \in 1..Len(idx) : idx[k] = i

\* mutant: one scalar branch for the whole batch (if np.all(b <= 1))
RadiusImpact_forward_val_scalar(t, x, g) ==
    LET p == x[1]
        b == x[2]
        N == Len(b)
        m == \A i \in 1..N : Leq(b[i], One)
        r == [j \in 1..Len(x) |-> [i \in 1..N |->
                 IF j > 2 THEN g
                 ELSE IF m THEN RadiusImpact_forward_A(t.min_radius, t.Ar, t.dr, p[i], b[i])[j]
                 ELSE RadiusImpact_forward_B(t.min_radius, t.Ar, t.dr, p[i], b[i])[j]]]
    IN [j \in 1..Len(x) |-> [i \in 1..N |-> LogDiff(r[j][i], Sub(One, r[j][i]))]]

\* r = np.empty_like(x) has the shape of x: rows 0 and 1 are assigned through
\* the mask and its complement, any further row keeps what the memory held (g)
RadiusImpact_forward_val(t, x, g) ==
    LET p == x[1]
        b == x[2]
        pl == RadiusImpact_draw_values(t)[1]
        Ar == RadiusImpact_draw_values(t)[2]
        dr == RadiusImpact_draw_values(t)[3]
        N == Len(b)
        m == [i \in 1..N |-> Leq(b[i], One)]
        sel == MaskIndices(m)
        rest == MaskIndices([i \in 1..N |-> ~m[i]])
        \* the values assigned to r[0, m], r[1, m]
        rm == [k \in 1..Len(sel) |->
                 RadiusImpact_forward_A(pl, Ar, dr, p[sel[k]], b[sel[k]])]
        \* the values assigned to r[0, ~m], r[1, ~m]
        rn == [k \in 1..Len(rest) |->
                 RadiusImpact_forward_B(pl, Ar, dr, p[rest[k]], b[rest[k]])]
        r == [j \in 1..Len(x) |-> [i \in 1..N |->
                 IF j > 2 THEN g
                 ELSE IF m[i] THEN rm[PositionIn(sel, i)][j]
                 ELSE rn[PositionIn(rest, i)][j]]]
    IN [j \in 1..Len(x) |-> [i \in 1..N |-> LogDiff(r[j][i], Sub(One, r[j][i]))]]

(***************************************************************************)
(* ImpactParameterTransform(tr.LogOdds) (scalars).  A log-Jacobian is held *)
(* as its exponential.                                                     *)
(***************************************************************************)
ImpactParameter_init(ror) == [one_plus_ror |-> Add(One, ror)]

\* pymc3's LogOdds: backward is sigmoid, forward is log(x / (1 - x)), and
\* jacobian_det is log|d sigmoid / dy| = log(s * (1 - s))
LogOdds_backward(x) == Sigmoid(x)

LogOdds_forward(x) ==
    LET odds == Div(x, Sub(One, x))
    IN IF Leq(Zero, odds) THEN odds ELSE NaN

LogOdds_jacobian_det(y) == Mul(Sigmoid(y), Sub(One, Sigmoid(y)))

ImpactParameter_backward(t, x) ==
    LET bhat == LogOdds_backward(x)
    IN Mul(bhat, t.one_plus_ror)

ImpactParameter_forward(t, x) == LogOdds_forward(Div(x, t.one_plus_ror))

ImpactParameter_forward_val(t, x) ==
    LET opror == t.one_plus_ror
    IN LogOdds_forward(Div(x, opror))

ImpactParameter_jacobian_det(t, y) ==
    LET jac == LogOdds_jacobian_det(y)
    IN IF Lt(t.one_plus_ror, Zero) THEN NaN ELSE Div(jac, t.one_plus_ror)

(***************************************************************************)
(* Inputs.  Every grid is a finite set of exact values of the domain it    *)
(* samples; the unconstrained grids are chosen so that the square roots    *)
(* the transforms take of them are rational.                               *)
(***************************************************************************)
Radii == {Q(k, 4) : k \in 0..MaxRadiusK}

\* x in (-1, 1)
OpenUnitGrid == {Q(k, GridN + 1) : k \in (-GridN)..GridN}

\* q in (0, 1)
ProbGrid == {Q(k, GridN + 1) : k \in 1..GridN}

\* exp(y) for finite y
ExpGrid == {Q(i, j) : i \in 1..GridN, j \in 1..GridN}

\* exp(y) with 1 - (2 sigmoid(y) - 1)^2 the square of a rational
SquareExpGrid == {Q(i * i, j * j) : i \in 1..GridN, j \in 1..GridN}

\* exp(y) with sigmoid(y) = (a/c)^2
SquareSigmoidGrid ==
    {Q(ac[1] * ac[1], ac[2] * ac[2] - ac[1] * ac[1]) :
        ac \in {v \in (1..GridN) \X (2..(GridN + 1)) : v[1] < v[2]}}

\* points of the open unit disk whose first coordinate has a rational 1 - x0^2
DiskGrid ==
    {x \in {<<Interval_backward(Neg(One), One, <<e>>)[1], x1>> :
                e \in SquareExpGrid, x1 \in OpenUnitGrid} :
        Lt(Add(Square(x[1]), Square(x[2])), One)}

ValidRadii(t) == Leq(Zero, t.min_radius) /\ Lt(t.min_radius, t.max_radius)

\* radius ratios from min_radius to max_radius
RI_P(t) == {Add(t.min_radius, Mul(t.dr, Q(k, GridN))) : k \in 0..GridN}

\* impact parameters of [0, 1], (1, 1 + min_radius] and (1 + min_radius, 1 + p]
RI_B(t, p) ==
    {Q(j, GridN) : j \in 0..GridN}
    \cup {Add(One, Mul(t.min_radius, Q(j, GridN))) : j \in 1..GridN}
    \cup {Add(Add(One, t.min_radius), Mul(Sub(p, t.min_radius), Q(j, GridN))) :
            j \in 1..GridN}

\* sigmoid(y0): Ar * (a/c)^2 on both sides of Ar, Ar itself, and points above Ar
RI_R0(t) ==
    IF ValidRadii(t)
    THEN {r \in {Mul(t.Ar, Q(a * a, c * c)) : a \in 1..GridN, c \in 1..GridN} :
            Lt(r, One)}
         \cup {Add(t.Ar, Mul(Sub(One, t.Ar), Q(k, GridN))) : k \in 1..(GridN - 1)}
    ELSE ProbGrid

\* a few (p, b) pairs of either forward branch
RI_BatchX(t) ==
    LET pm == Add(t.min_radius, Mul(t.dr, Half))
    IN {<<pm, Half>>,
        <<pm, Add(One, Mul(t.min_radius, Half))>>,
        <<pm, Add(Add(One, t.min_radius), Mul(Sub(pm, t.min_radius), Half))>>}

\* a few unconstrained pairs of either backward branch
RI_BatchY(t) ==
    {<<Logit(Mul(t.Ar, Q(1, 4))), Logit(Half)>>,
     <<Logit(t.Ar), Logit(Q(1, 4))>>,
     <<Logit(Mul(Add(One, t.Ar), Half)), Logit(Q(3, 4))>>}

\* the arrays of shape (2, N) holding N pairs of S along the first axis
PairFirst(S, N) ==
    {<<[i \in 1..N |-> f[i][1]], [i \in 1..N |-> f[i][2]]>> : f \in [1..N -> S]}

\* the arrays of shape (N, 2) holding N pairs of S along the last axis
PairLast(S, N) == [1..N -> S]

Transpose(x) == [i \in 1..Len(x[1]) |-> [j \in 1..Len(x) |-> x[j][i]]]

\* what the entries of np.empty_like(x) that are never assigned may hold: rows
\* 0 and 1 are assigned, so there are such entries only if x has more rows
Garbage(x) == IF Len(x) > 2 THEN {Zero, Half, Two} ELSE {Zero}

(***************************************************************************)
(* State.  pc: "ready" before the first call, "called" after it,           *)
(* "chained" after a second call made on the first call's result.          *)
(* ri, ip: <<>> or <<t>>, the RadiusImpactTransform / ImpactParameter-     *)
(* Transform constructed.  op, layout, arg, out, err: the last call, the   *)
(* axis its caller laid the pairs along, its argument, its result (<<>>    *)
(* if it raised) and the exception it raised.  prev: <<>> or <<the call    *)
(* whose result the last call was made on>>.                               *)
(***************************************************************************)
Init ==
    /\ pc = "ready"
    /\ ri = <<>>
    /\ ip = <<>>
    /\ op = "none"
    /\ layout = "none"
    /\ arg = <<>>
    /\ out = <<>>
    /\ err = "none"
    /\ prev = <<>>

NoObject == ri = <<>> /\ ip = <<>>

\* a call made on a fresh argument
Call(name, lay, a, res, e) ==
    /\ pc = "ready"
    /\ pc' = "called"
    /\ op' = name
    /\ layout' = lay
    /\ arg' = a
    /\ out' = res
    /\ err' = e
    /\ prev' = <<>>
    /\ UNCHANGED <<ri, ip>>

\* a call made on the result of the call before
Chained(after, name, res) ==
    /\ pc = "called"
    /\ op = after
    /\ err = "none"
    /\ pc' = "chained"
    /\ op' = name
    /\ layout' = layout
    /\ arg' = out
    /\ out' = res
    /\ err' = "none"
    /\ prev' = <<[op |-> op, arg |-> arg]>>
    /\ UNCHANGED <<ri, ip>>

(***************************************************************************)
(* absolute_value, unit_disk, quad_limb_dark: module-level instances.      *)
(***************************************************************************)
absolute_value_forward ==
    /\ pc = "ready"
    /\ NoObject
    /\ \E x \in OpenUnitGrid :
         Call("absolute_value.forward", "scalar", x, AbsoluteValue_forward(x), "none")

absolute_value_backward ==
    \/ /\ pc = "ready"
       /\ NoObject
       /\ \E y \in ExpGrid :
            Call("absolute_value.backward", "scalar", y, AbsoluteValue_backward(y), "none")
    \/ Chained("absolute_value.forward", "absolute_value.backward",
               AbsoluteValue_backward(out))

unit_disk_backward ==
    /\ pc = "ready"
    /\ NoObject
    /\ \E y0 \in SquareExpGrid, y1 \in ExpGrid :
         Call("unit_disk.backward", "vector", <<y0, y1>>,
              Chain_backward(unit_disk_transform_list, <<y0, y1>>), "none")

unit_disk_forward ==
    \/ /\ pc = "ready"
       /\ NoObject
       /\ \E x \in DiskGrid :
            Call("unit_disk.forward", "vector", x,
                 Chain_forward(unit_disk_transform_list, x), "none")
    \/ Chained("unit_disk.backward", "unit_disk.forward",
               Chain_forward(unit_disk_transform_list, out))

quad_limb_dark_backward ==
    /\ pc = "ready"
    /\ NoObject
    /\ \E y0 \in SquareSigmoidGrid, y1 \in ExpGrid :
         Call("quad_limb_dark.backward", "vector", <<y0, y1>>,
              QuadLimbDark_backward(<<y0, y1>>), "none")

quad_limb_dark_forward ==
    Chained("quad_limb_dark.backward", "quad_limb_dark.forward",
            QuadLimbDark_forward(out))

(***************************************************************************)
(* RadiusImpactTransform.                                                  *)
(***************************************************************************)
\* __init__ validates nothing: every pair of radii yields an object
radius_impact_init ==
    /\ pc = "ready"
    /\ NoObject
    /\ \E min_radius \in Radii, max_radius \in Radii :
         ri' = <<RadiusImpact_init(min_radius, max_radius)>>
    /\ UNCHANGED <<pc, ip, op, layout, arg, out, err, prev>>

\* the (p, b) pairs of the full grid
RI_Grid(t) == UNION {{<<p, b>> : b \in RI_B(t, p)} : p \in RI_P(t)}

\* batch lengths: batches are drawn for the transforms with valid radii
BatchLengths(t, least) == IF ValidRadii(t) THEN least..MaxBatch ELSE {}

\* <<layout, x>>: the (2, 1) arrays of the full grid, the (2, N) batches and
\* the (N, 2) batches the docstring describes
RI_ForwardInputs(t) ==
    {<<"pair_first", <<<<pb[1]>>, <<pb[2]>>>>>> : pb \in RI_Grid(t)}
    \cup {<<"pair_first", x>> :
            x \in UNION {PairFirst(RI_BatchX(t), N) : N \in BatchLengths(t, 2)}}
    \cup {<<"pair_last", x>> :
            x \in UNION {PairLast(RI_BatchX(t), N) : N \in BatchLengths(t, 1)}}

RI_BackwardInputs(t) ==
    {<<"pair_first", <<<<Logit(r0)>>, <<Logit(r1)>>>>>> :
        r0 \in RI_R0(t), r1 \in ProbGrid}
    \cup {<<"pair_first", y>> :
            y \in UNION {PairFirst(RI_BatchY(t), N) : N \in BatchLengths(t, 2)}}
    \cup {<<"pair_last", y>> :
            y \in UNION {PairLast(RI_BatchY(t), N) : N \in BatchLengths(t, 1)}}

\* x[1] of an array with a single row raises IndexError
radius_impact_forward ==
    /\ pc = "ready"
    /\ ri # <<>>
    /\ \E in \in RI_ForwardInputs(ri[1]) :
         IF Len(in[2]) < 2
         THEN Call("radius_impact.forward", in[1], in[2], <<>>, "IndexError")
         ELSE Call("radius_impact.forward", in[1], in[2],
                   RadiusImpact_forward(ri[1], in[2]), "none")

radius_impact_forward_val ==
    /\ pc = "ready"
    /\ ri # <<>>
    /\ \E in \in RI_ForwardInputs(ri[1]) : \E g \in Garbage(in[2]) :
         IF Len(in[2]) < 2
         THEN Call("radius_impact.forward_val", in[1], in[2], <<>>, "IndexError")
         ELSE Call("radius_impact.forward_val", in[1], in[2],
                   RadiusImpact_forward_val(ri[1], in[2], g), "none")

radius_impact_backward ==
    \/ /\ pc = "ready"
       /\ ri # <<>>
       /\ \E in \in RI_BackwardInputs(ri[1]) :
            IF Len(in[2]) < 2
            THEN Call("radius_impact.backward", in[1], in[2], <<>>, "IndexError")
            ELSE Call("radius_impact.backward", in[1], in[2],
                      RadiusImpact_backward(ri[1], in[2]), "none")
    \/ /\ pc = "called"
       /\ ri # <<>>
       /\ Chained("radius_impact.forward", "radius_impact.backward",
                  RadiusImpact_backward(ri[1], out))

(***************************************************************************)
(* ImpactParameterTransform.                                               *)
(***************************************************************************)
impact_parameter_init ==
    /\ pc = "ready"
    /\ NoObject
    /\ \E ror \in Radii : ip' = <<ImpactParameter_init(ror)>>
    /\ UNCHANGED <<pc, ri, op, layout, arg, out, err, prev>>

\* impact parameters of [0, 1 + ror]
IP_B(t) == {Mul(t.one_plus_ror, Q(k, GridN + 1)) : k \in 0..(GridN + 1)}

impact_parameter_backward ==
    /\ pc = "ready"
    /\ ip # <<>>
    /\ \E y \in ExpGrid :
         Call("impact_parameter.backward", "scalar", y,
              ImpactParameter_backward(ip[1], y), "none")

\* mutant: backward_val returns the value backward would
impact_parameter_backward_val_returns ==
    /\ pc = "ready"
    /\ ip # <<>>
    /\ \E x \in ExpGrid \cup IP_B(ip[1]) :
         Call("impact_parameter.backward_val", "scalar", x,
              ImpactParameter_backward(ip[1], x), "none")

\* raise NotImplementedError, whatever x is
impact_parameter_backward_val ==
    /\ pc = "ready"
    /\ ip # <<>>
    /\ \E x \in ExpGrid \cup IP_B(ip[1]) :
         Call("impact_parameter.backward_val", "scalar", x, <<>>, "NotImplementedError")

impact_parameter_forward ==
    /\ pc = "ready"
    /\ ip # <<>>
    /\ \E x \in IP_B(ip[1]) :
         Call("impact_parameter.forward", "scalar", x,
              ImpactParameter_forward(ip[1], x), "none")

impact_parameter_forward_val ==
    /\ pc = "ready"
    /\ ip # <<>>
    /\ \E x \in IP_B(ip[1]) :
         Call("impact_parameter.forward_val", "scalar", x,
              ImpactParameter_forward_val(ip[1], x), "none")

impact_parameter_jacobian_det ==
    /\ pc = "ready"
    /\ ip # <<>>
    /\ \E y \in ExpGrid :
         Call("impact_parameter.jacobian_det", "scalar", y,
              ImpactParameter_jacobian_det(ip[1], y), "none")

Next ==
    \/ absolute_value_forward
    \/ absolute_value_backward
    \/ unit_disk_backward
    \/ unit_disk_forward
    \/ quad_limb_dark_backward
    \/ quad_limb_dark_forward
    \/ radius_impact_init
    \/ radius_impact_forward
    \/ radius_impact_forward_val
    \/ radius_impact_backward
    \/ impact_parameter_init
    \/ impact_parameter_backward
    \/ impact_parameter_backward_val
    \/ impact_parameter_forward
    \/ impact_parameter_forward_val
    \/ impact_parameter_jacobian_det

Spec == Init /\ [][Next]_vars

(***************************************************************************)
(* Properties.                                                             *)
(***************************************************************************)
\* a call of RadiusImpactTransform method m that returned, on an array laid out
\* as lay, by a transform with 0 <= min_radius < max_radius
RI_Returned(m, lay) ==
    /\ op = m
    /\ layout = lay
    /\ err = "none"
    /\ ri # <<>>
    /\ ValidRadii(ri[1])

\* min_radius < p < max_radius and 0 < b < 1 + p for every pair of the (2, N) array x
RI_InDomain(t, x) ==
    \A i \in 1..Len(x[1]) :
        /\ Lt(t.min_radius, x[1][i])
        /\ Lt(x[1][i], t.max_radius)
        /\ Lt(Zero, x[2][i])
        /\ Lt(x[2][i], Add(One, x[1][i]))

\* sigmoid(y) lies in (0, 1)^2 for every pair of the (2, N) array y
RI_Unconstrained(y) ==
    \A j \in 1..2 : \A i \in 1..Len(y[j]) :
        Lt(Zero, Sigmoid(y[j][i])) /\ Lt(Sigmoid(y[j][i]), One)

\* C1 (as claimed): RadiusImpactTransform round trip: for 0 <= min_radius <
\* max_radius and every (p, b) with min_radius < p < max_radius and
\* 0 < b < 1 + p, backward(forward((p, b))) = (p, b).
C1_RoundTrip ==
    (/\ pc = "chained"
     /\ RI_Returned("radius_impact.backward", "pair_first")
     /\ RI_InDomain(ri[1], prev[1].arg))
    => out = prev[1].arg

\* C1, where it holds: the round trip succeeds whenever no b lies strictly
\* between 1 and 1 + min_radius (always, when min_radius = 0).
C1_RoundTripOutsideGap ==
    (/\ pc = "chained"
     /\ RI_Returned("radius_impact.backward", "pair_first")
     /\ RI_InDomain(ri[1], prev[1].arg)
     /\ \A i \in 1..Len(prev[1].arg[2]) :
            \/ Leq(prev[1].arg[2][i], One)
            \/ Geq(prev[1].arg[2][i], Add(One, ri[1].min_radius)))
    => out = prev[1].arg

\* the pairs of the (2, N) argument of backward that sit on the branch boundary
RI_AtAr(t, y) == {i \in 1..Len(y[1]) : Sigmoid(y[1][i]) = t.Ar}

\* the pairs of the (2, N) argument of forward that sit on the branch boundary
RI_AtOne(x) == {i \in 1..Len(x[2]) : x[2][i] = One}

\* C2 (as claimed): branch continuity: at sigmoid(y0) = Ar the two backward
\* branch formulas yield the same (p, b), and at b = 1 the two forward branch
\* formulas yield the same (r0, r1).
C2_BranchContinuity ==
    /\ RI_Returned("radius_impact.backward", "pair_first") =>
         \A i \in RI_AtAr(ri[1], arg) :
            RadiusImpact_backward_A(ri[1], Sigmoid(arg[1][i]), Sigmoid(arg[2][i]))
              = RadiusImpact_backward_B(ri[1], Sigmoid(arg[1][i]), Sigmoid(arg[2][i]))
    /\ RI_Returned("radius_impact.forward", "pair_first") =>
         \A i \in RI_AtOne(arg) :
            RadiusImpact_forward_A(ri[1].min_radius, ri[1].Ar, ri[1].dr, arg[1][i], arg[2][i])
              = RadiusImpact_forward_B(ri[1].min_radius, ri[1].Ar, ri[1].dr, arg[1][i], arg[2][i])

\* C2 (amended): at sigmoid(y0) = Ar the two backward branch formulas agree on
\* p = min_radius + r1 * dr only: branch A gives b = 0, branch B gives
\* b = 1 + min_radius + r1 * dr = 1 + p, which is what backward returns there
\* (r0 > Ar is false).  At b = 1 the forward branch A gives r0 > Ar, and with
\* min_radius = 0 it gives r0 = 1 where branch B gives r0 <= Ar < 1.
C2_BranchJump ==
    /\ RI_Returned("radius_impact.backward", "pair_first") =>
         \A i \in RI_AtAr(ri[1], arg) :
            LET t == ri[1]
                r1 == Sigmoid(arg[2][i])
                A == RadiusImpact_backward_A(t, Sigmoid(arg[1][i]), r1)
                B == RadiusImpact_backward_B(t, Sigmoid(arg[1][i]), r1)
                p == Add(t.min_radius, Mul(r1, t.dr))
            IN /\ A[1] = p
               /\ B[1] = p
               /\ A[2] = Zero
               /\ B[2] = Add(One, p)
               /\ out[1][i] = B[1]
               /\ out[2][i] = B[2]
    /\ RI_Returned("radius_impact.forward", "pair_first") =>
         \A i \in RI_AtOne(arg) :
            LET t == ri[1]
                A == RadiusImpact_forward_A(t.min_radius, t.Ar, t.dr, arg[1][i], arg[2][i])
                B == RadiusImpact_forward_B(t.min_radius, t.Ar, t.dr, arg[1][i], arg[2][i])
            IN /\ Gt(A[1], t.Ar)
               /\ (t.min_radius = Zero /\ Leq(Zero, arg[1][i]) /\ Leq(arg[1][i], t.max_radius))
                    => (A[1] = One /\ Leq(B[1], t.Ar) /\ Lt(t.Ar, One))

\* C2 witness: backward was called with a pair exactly on the boundary r0 = Ar
C2_Witness ==
    /\ RI_Returned("radius_impact.backward", "pair_first")
    /\ RI_AtAr(ri[1], arg) # {}
    /\ ri[1].min_radius # Zero

\* C3 (as claimed): AbsoluteValueTransform round trip: backward(forward(x)) = x
\* for every x in (-1, 1).
C3_RoundTrip ==
    (pc = "chained" /\ op = "absolute_value.backward") => out = prev[1].arg

\* C3 (amended): backward(forward(x)) = |x| for every x in (-1, 1), so the round
\* trip returns x exactly when 0 <= x < 1 and -x when -1 < x < 0.
C3_RoundTripAbs ==
    (pc = "chained" /\ op = "absolute_value.backward") =>
        /\ out = Abs(prev[1].arg)
        /\ (out = prev[1].arg) <=> Leq(Zero, prev[1].arg)

\* C3 witness: the round trip was made on a negative x
C3_Witness ==
    /\ pc = "chained"
    /\ op = "absolute_value.backward"
    /\ Lt(prev[1].arg, Zero)
    /\ out = Neg(prev[1].arg)

\* C4 (as claimed): constructing a RadiusImpactTransform with max_radius <=
\* min_radius fails at construction: no such transform object ever exists.
C4_ConstructionFailsFast ==
    ri # <<>> => Lt(ri[1].min_radius, ri[1].max_radius)

IP_Available ==
    {"impact_parameter.forward", "impact_parameter.backward",
     "impact_parameter.forward_val", "impact_parameter.jacobian_det"}

\* C5: ImpactParameterTransform.backward_val raises NotImplementedError for
\* every x and every ror and never returns a value, while forward, backward,
\* forward_val and jacobian_det of the same transform return one.
C5_BackwardValNotImplemented ==
    /\ op = "impact_parameter.backward_val" =>
         (err = "NotImplementedError" /\ out = <<>>)
    /\ op \in IP_Available => (err = "none" /\ out # <<>>)

\* C5 witness: backward_val was called on a transform with ror > 0
C5_Witness ==
    /\ op = "impact_parameter.backward_val"
    /\ ip # <<>>
    /\ Gt(ip[1].one_plus_ror, One)
    /\ err = "NotImplementedError"

\* C6: on every (2, N) batch, forward_val equals forward element by element
\* (the same branch per element, b_i <= 1, and the same (r0, r1)).
C6_ForwardValEqualsForward ==
    (/\ op = "radius_impact.forward_val"
     /\ layout = "pair_first"
     /\ err = "none") =>
        /\ Len(out) = 2
        /\ \A i \in 1..Len(arg[2]) :
              LET r == IF Leq(arg[2][i], One)
                       THEN RadiusImpact_forward_A(ri[1].min_radius, ri[1].Ar, ri[1].dr,
                                                   arg[1][i], arg[2][i])
                       ELSE RadiusImpact_forward_B(ri[1].min_radius, ri[1].Ar, ri[1].dr,
                                                   arg[1][i], arg[2][i])
              IN /\ out[1][i] = Logit(r[1])
                 /\ out[2][i] = Logit(r[2])
        /\ out = RadiusImpact_forward(ri[1], arg)

\* C6 witness: forward_val returned on a batch that mixes both branches
C6_Witness ==
    /\ RI_Returned("radius_impact.forward_val", "pair_first")
    /\ \E i, j \in 1..Len(arg[2]) :
          /\ i < j
          /\ Gt(arg[2][i], One)
          /\ Leq(arg[2][j], One)
    /\ \A j \in 1..2 : \A i \in 1..Len(out[j]) : ~IsNaN(out[j][i])

\* C7 (as claimed): forward, forward_val and backward read the pair along the
\* last axis: on an input of shape (N, 2), row i holds (radius ratio, impact
\* parameter) of element i and row i of the result holds its image.  (Stated of
\* the calls that return; on a (1, 2) input the call raises IndexError.)
C7_LastAxis ==
    (/\ layout = "pair_last"
     /\ ri # <<>>
     /\ ValidRadii(ri[1])
     /\ err = "none"
     /\ op \in {"radius_impact.forward", "radius_impact.forward_val",
                "radius_impact.backward"}) =>
        out = IF op = "radius_impact.backward"
              THEN Transpose(RadiusImpact_backward(ri[1], Transpose(arg)))
              ELSE Transpose(RadiusImpact_forward(ri[1], Transpose(arg)))

\* C8 (as claimed): for 0 <= min_radius < max_radius and sigmoid(y) in (0, 1)^2,
\* backward returns min_radius <= p <= max_radius and 0 <= b < 1 + p, with
\* b < 1 + min_radius on branch A (r0 > Ar) and b >= 1 + min_radius on branch B.
C8_BackwardInDomain ==
    (RI_Returned("radius_impact.backward", "pair_first") /\ RI_Unconstrained(arg)) =>
        \A i \in 1..Len(arg[1]) :
            LET t == ri[1]
                p == out[1][i]
                b == out[2][i]
            IN /\ Leq(t.min_radius, p)
               /\ Leq(p, t.max_radius)
               /\ Leq(Zero, b)
               /\ Lt(b, Add(One, p))
               /\ IF Gt(Sigmoid(arg[1][i]), t.Ar)
                  THEN Lt(b, Add(One, t.min_radius))
                  ELSE Geq(b, Add(One, t.min_radius))

\* C8 (amended): the same with 0 <= b <= 1 + p, where b = 1 + p exactly when
\* r0 = Ar (the boundary, which belongs to branch B).
C8_BackwardInClosedDomain ==
    (RI_Returned("radius_impact.backward", "pair_first") /\ RI_Unconstrained(arg)) =>
        \A i \in 1..Len(arg[1]) :
            LET t == ri[1]
                p == out[1][i]
                b == out[2][i]
            IN /\ Leq(t.min_radius, p)
               /\ Leq(p, t.max_radius)
               /\ Leq(Zero, b)
               /\ Leq(b, Add(One, p))
               /\ (b = Add(One, p)) <=> (Sigmoid(arg[1][i]) = t.Ar)
               /\ IF Gt(Sigmoid(arg[1][i]), t.Ar)
                  THEN Lt(b, Add(One, t.min_radius))
                  ELSE Geq(b, Add(One, t.min_radius))

\* C8 witness: backward returned on a batch with a pair on branch A, a pair on
\* branch B and a pair on the boundary
C8_Witness ==
    /\ RI_Returned("radius_impact.backward", "pair_first")
    /\ RI_Unconstrained(arg)
    /\ \E i \in 1..Len(arg[1]) : Gt(Sigmoid(arg[1][i]), ri[1].Ar)
    /\ \E i \in 1..Len(arg[1]) : Lt(Sigmoid(arg[1][i]), ri[1].Ar)
    /\ \E i \in 1..Len(arg[1]) : out[2][i] = Add(One, out[1][i])

\* C9: unit_disk = Chain([UnitDiskTransform, Interval(-1, 1)]) applies the list
\* head innermost on backward: backward(y) = UnitDisk.backward(Interval.backward(y))
\* and forward(x) = Interval.forward(UnitDisk.forward(x)); the Interval stage
\* yields (y0, y1) strictly inside (-1, 1)^2 and the final point is
\* (y0, y1 * sqrt(1 - y0^2)), strictly inside the unit disk.
C9_UnitDiskChain ==
    /\ op = "unit_disk.backward" =>
         LET s == Interval_backward(Neg(One), One, arg)
         IN /\ \A i \in 1..2 : Lt(Neg(One), s[i]) /\ Lt(s[i], One)
            /\ out = UnitDisk_backward(s)
            /\ out[1] = s[1]
            /\ Square(out[2]) = Mul(Square(s[2]), Sub(One, Square(s[1])))
            /\ Sgn(out[2][1]) = Sgn(s[2][1])
            /\ Lt(Add(Square(out[1]), Square(out[2])), One)
    /\ op = "unit_disk.forward" =>
         out = Interval_forward(Neg(One), One, UnitDisk_forward(arg))

\* C9 witness: backward returned a point off both axes of the disk
C9_Witness ==
    /\ op = "unit_disk.backward"
    /\ out[1] # Zero
    /\ out[2] # Zero
    /\ out[2] # Interval_backward(Neg(One), One, arg)[2]

\* C10: QuadLimbDarkTransform.backward lands in the triangle u0 > 0,
\* u0 + u1 < 1, u0 + 2 u1 > 0, with (u0 + u1)^2 = q0 and 0.5 u0 / (u0 + u1) = q1
\* for q = sigmoid(y), and forward(backward(y)) = y.
C10_QuadLimbDarkTriangle ==
    /\ op = "quad_limb_dark.backward" =>
         LET u0 == out[1]
             u1 == out[2]
         IN /\ Gt(u0, Zero)
            /\ Lt(Add(u0, u1), One)
            /\ Gt(Add(u0, Mul(Two, u1)), Zero)
            /\ Square(Add(u0, u1)) = Sigmoid(arg[1])
            /\ Div(Mul(Half, u0), Add(u0, u1)) = Sigmoid(arg[2])
    /\ (pc = "chained" /\ op = "quad_limb_dark.forward") =>
         /\ out = prev[1].arg
         /\ Sigmoid(out[1]) = Square(Add(arg[1], arg[2]))

\* C10 witness: forward was applied to a backward result with u1 < 0
C10_Witness ==
    /\ pc = "chained"
    /\ op = "quad_limb_dark.forward"
    /\ Lt(arg[2], Zero)
    /\ out = prev[1].arg

====
